---- MODULE Spec2Model ----
(***************************************************************************)
(* Model of the BrailleDisplay controller of the Braille Writing Tutor     *)
(* (source/arduino/BrailleWritingTutor/BRAILLE_CONFIG.{h,cpp}).            *)
(*                                                                         *)
(* The display object is a record D with the fields of class              *)
(* BrailleDisplay; every member function is an operator from D (and the    *)
(* reading t of millis() during the call) to the D it leaves behind.       *)
(* A public call is one action.  The millisecond clock is the environment: *)
(* it advances between calls and wraps at 2^32 (unsigned long).            *)
(***************************************************************************)
EXTENDS Integers, Sequences, FiniteSets, TLC

\* ---- BRAILLE_CONFIG.h -------------------------------------------------
NUM_BRAILLE_CELLS == 10
DOTS_PER_CELL == 6
TOTAL_DOTS == NUM_BRAILLE_CELLS * DOTS_PER_CELL
OUTPUTS_PER_DOT == 2
TOTAL_OUTPUTS == TOTAL_DOTS * OUTPUTS_PER_DOT
NUM_SHIFT_REGISTERS == (TOTAL_OUTPUTS + 7) \div 8
DOT_DIRECTION_UP == 0
DOT_DIRECTION_DOWN == 1
ACTUATOR_SETTLE_TIME == 50
BRAILLE_CAPITAL_SIGN == 32
BRAILLE_NUMBER_SIGN == 60
BRAILLE_SPACE == 0

\* uint8_t is 8 bits wide
UINT8_MOD == 2^8

\* unsigned long is 32 bits wide.  A value is kept as its two 16-bit halves,
\* [hi, lo] standing for hi * 2^16 + lo, and the arithmetic is done on them.
HALF_MOD == 2^16

ULong(hi, lo) == [hi |-> hi, lo |-> lo]

\* a + n modulo 2^32, for 0 <= n < 2^16
ULongAdd(a, n) ==
  LET lo == a.lo + n
  IN ULong((a.hi + (lo \div HALF_MOD)) % HALF_MOD, lo % HALF_MOD)

\* a >= b on unsigned long
ULongGE(a, b) == a.hi > b.hi \/ (a.hi = b.hi /\ a.lo >= b.lo)

\* the largest unsigned long less n + 1, that is 2^32 - n, for 0 < n < 2^16
ULongBeforeWrap(n) == ULong(HALF_MOD - 1, HALF_MOD - n)

\* ---- tables of BRAILLE_CONFIG.cpp (index 1 is the C index 0) -----------
BRAILLE_ALPHABET ==
  << 1, 3, 9, 25, 17, 11, 27, 19, 10, 26, 5, 7, 13, 29, 21, 15, 31, 23, 14,
     30, 37, 39, 58, 45, 61, 53 >>

BRAILLE_NUMBERS ==
  << 26, 1, 3, 9, 25, 17, 11, 27, 19, 10 >>

BRAILLE_PUNCTUATION ==
  << 0, 22, 4, 48, 50, 12, 38, 6, 18, 35, 28, 44, 24, 46, 42, 36 >>

\* ---- bounds of the model ----------------------------------------------
\* steps (calls and clock advances) of a behaviour of Spec
MaxCalls == 3
\* steps (calls and clock advances) of a behaviour of TimingSpec
MaxTimingSteps == 5
\* longest text handed to displayText in InputSpec
MaxTextLen == 3
\* the clock reads 0 at the start, or 2^32 less this many milliseconds
WrapMargin == 60
\* the shorter of the two clock steps (the other is ACTUATOR_SETTLE_TIME)
ShortStep == 20

\* ---- bit arithmetic on uint8_t ----------------------------------------
\* (x >> k) & 1
Bit(x, k) == (x \div (2^k)) % 2

\* x | (1 << k)
SetBit(x, k) == IF Bit(x, k) = 1 THEN x ELSE x + 2^k

\* x & ~(1 << k)
ClearBit(x, k) == IF Bit(x, k) = 1 THEN x - 2^k ELSE x

\* ---- ASCII ------------------------------------------------------------
IsDigit(c) == c >= 48 /\ c <= 57
IsUpper_offByOne(c) == c > 65 /\ c <= 90

IsUpper(c) == c >= 65 /\ c <= 90
IsLower(c) == c >= 97 /\ c <= 122

\* ---- free functions ---------------------------------------------------
isValidBrailleCell(cellIndex) == cellIndex < NUM_BRAILLE_CELLS

mirrorBraillePattern_highBitsKept(pattern) ==
  ((pattern \div 64) * 64) + ((pattern % 8) * 8) + ((pattern \div 8) % 8)

mirrorBraillePattern(pattern) ==
    (IF Bit(pattern, 0) = 1 THEN 8 ELSE 0)
  + (IF Bit(pattern, 1) = 1 THEN 16 ELSE 0)
  + (IF Bit(pattern, 2) = 1 THEN 32 ELSE 0)
  + (IF Bit(pattern, 3) = 1 THEN 1 ELSE 0)
  + (IF Bit(pattern, 4) = 1 THEN 2 ELSE 0)
  + (IF Bit(pattern, 5) = 1 THEN 4 ELSE 0)

charToBraille(c) ==
  IF IsLower(c) THEN BRAILLE_ALPHABET[c - 97 + 1]
  ELSE IF IsUpper(c) THEN BRAILLE_ALPHABET[c - 65 + 1]
  ELSE IF IsDigit(c) THEN BRAILLE_NUMBERS[c - 48 + 1]
  ELSE CASE c = 32 -> BRAILLE_SPACE
         [] c = 33 -> BRAILLE_PUNCTUATION[2]
         [] c = 39 -> BRAILLE_PUNCTUATION[3]
         [] c = 45 -> BRAILLE_PUNCTUATION[4]
         [] c = 46 -> BRAILLE_PUNCTUATION[5]
         [] c = 44 -> BRAILLE_PUNCTUATION[6]
         [] c = 63 -> BRAILLE_PUNCTUATION[7]
         [] c = 59 -> BRAILLE_PUNCTUATION[8]
         [] c = 58 -> BRAILLE_PUNCTUATION[9]
         [] OTHER -> 0

getDotOutputIndex(dotIndex, direction) ==
  ((dotIndex * OUTPUTS_PER_DOT) + direction) % UINT8_MOD

\* ---- the object after BrailleDisplay::BrailleDisplay() -----------------
clearShiftRegisters(D) ==
  [D EXCEPT !.shiftRegisterData = [i \in 0..(NUM_SHIFT_REGISTERS - 1) |-> 0]]

Constructed ==
  clearShiftRegisters(
    [ displayEnabled |-> FALSE,
      lastUpdateTime |-> ULong(0, 0),
      cells |-> [i \in 0..(NUM_BRAILLE_CELLS - 1) |->
                   [pattern |-> 0, currentState |-> 0, isActive |-> FALSE,
                    updateTime |-> ULong(0, 0), needsUpdate |-> FALSE]],
      dotStates |-> [i \in 0..(TOTAL_DOTS - 1) |->
                   [targetState |-> FALSE, currentState |-> FALSE,
                    actionTime |-> ULong(0, 0), actionPending |-> FALSE]],
      shiftRegisterData |-> [i \in 0..(NUM_SHIFT_REGISTERS - 1) |-> 0],
      sink |-> << >> ])

\* ---- output serializer ------------------------------------------------
setShiftRegisterBit(D, outputIndex, state) ==
  IF outputIndex >= TOTAL_OUTPUTS THEN D
  ELSE LET registerIndex == outputIndex \div 8
           bitIndex == outputIndex % 8
       IN IF registerIndex < NUM_SHIFT_REGISTERS
          THEN [D EXCEPT !.shiftRegisterData[registerIndex] =
                  IF state THEN SetBit(@, bitIndex) ELSE ClearBit(@, bitIndex)]
          ELSE D

\* a dot with an action pending is left out of the buffer
serializeDot_skipsPending(D, dotIndex) ==
  LET dotState == D.dotStates[dotIndex].currentState
      upOutputIndex == getDotOutputIndex(dotIndex, DOT_DIRECTION_UP)
      downOutputIndex == getDotOutputIndex(dotIndex, DOT_DIRECTION_DOWN)
  IN IF D.dotStates[dotIndex].actionPending THEN D
     ELSE IF dotState
     THEN setShiftRegisterBit(setShiftRegisterBit(D, upOutputIndex, TRUE),
                              downOutputIndex, FALSE)
     ELSE setShiftRegisterBit(setShiftRegisterBit(D, upOutputIndex, FALSE),
                              downOutputIndex, TRUE)

\* the retract output is driven in the raised branch too
serializeDot_retractAlwaysDriven(D, dotIndex) ==
  LET dotState == D.dotStates[dotIndex].currentState
      upOutputIndex == getDotOutputIndex(dotIndex, DOT_DIRECTION_UP)
      downOutputIndex == getDotOutputIndex(dotIndex, DOT_DIRECTION_DOWN)
  IN IF dotState
     THEN setShiftRegisterBit(setShiftRegisterBit(D, upOutputIndex, TRUE),
                              downOutputIndex, TRUE)
     ELSE setShiftRegisterBit(setShiftRegisterBit(D, upOutputIndex, FALSE),
                              downOutputIndex, TRUE)

\* one iteration of the loop of updateShiftRegisters
serializeDot(D, dotIndex) ==
  LET dotState == D.dotStates[dotIndex].currentState
      upOutputIndex == getDotOutputIndex(dotIndex, DOT_DIRECTION_UP)
      downOutputIndex == getDotOutputIndex(dotIndex, DOT_DIRECTION_DOWN)
  IN IF dotState
     THEN setShiftRegisterBit(setShiftRegisterBit(D, upOutputIndex, TRUE),
                              downOutputIndex, FALSE)
     ELSE setShiftRegisterBit(setShiftRegisterBit(D, upOutputIndex, FALSE),
                              downOutputIndex, TRUE)

\* the loop of updateShiftRegisters from dotIndex on; dotStates has the
\* indices 0 .. TOTAL_DOTS - 1, so the test is dotIndex < TOTAL_DOTS
RECURSIVE serializeFrom(_, _)
serializeFrom(D, dotIndex) ==
  IF dotIndex \notin DOMAIN D.dotStates THEN D
  ELSE serializeFrom(serializeDot(D, dotIndex), dotIndex + 1)

updateShiftRegisters(D) == serializeFrom(clearShiftRegisters(D), 0)

\* the bytes handed to shiftOut, register NUM_SHIFT_REGISTERS-1 first
shiftedOut(D) ==
  [k \in 1..NUM_SHIFT_REGISTERS |-> D.shiftRegisterData[NUM_SHIFT_REGISTERS - k]]

refresh_unguarded(D, t) ==
  [D EXCEPT !.sink = Append(@, shiftedOut(D)),
            !.lastUpdateTime = t]

refresh(D, t) ==
  IF ~D.displayEnabled THEN D
  ELSE [D EXCEPT !.sink = Append(@, shiftedOut(D)),
                 !.lastUpdateTime = t]

\* ---- actuator scheduler -----------------------------------------------
\* a deferred request on a pending dot keeps the actionTime already scheduled
setDotState_firstScheduleKept(D, dotIndex, state, immediate, t) ==
  IF dotIndex >= TOTAL_DOTS THEN D
  ELSE IF immediate
       THEN refresh(updateShiftRegisters(
              [D EXCEPT !.dotStates[dotIndex] =
                 [targetState |-> state, currentState |-> state,
                  actionTime |-> t, actionPending |-> FALSE]]), t)
       ELSE [D EXCEPT !.dotStates[dotIndex] =
                 [@ EXCEPT !.targetState = state,
                           !.actionTime = IF D.dotStates[dotIndex].actionPending THEN @
                                          ELSE ULongAdd(t, ACTUATOR_SETTLE_TIME),
                           !.actionPending = TRUE]]

\* a deferred request records the target and does not flag the dot pending
setDotState_notFlagged(D, dotIndex, state, immediate, t) ==
  IF dotIndex >= TOTAL_DOTS THEN D
  ELSE IF immediate
       THEN refresh(updateShiftRegisters(
              [D EXCEPT !.dotStates[dotIndex] =
                 [targetState |-> state, currentState |-> state,
                  actionTime |-> t, actionPending |-> FALSE]]), t)
       ELSE [D EXCEPT !.dotStates[dotIndex] =
                 [@ EXCEPT !.targetState = state,
                           !.actionTime = ULongAdd(t, ACTUATOR_SETTLE_TIME)]]

setDotState(D, dotIndex, state, immediate, t) ==
  IF dotIndex >= TOTAL_DOTS THEN D
  ELSE IF immediate
       THEN refresh(updateShiftRegisters(
              [D EXCEPT !.dotStates[dotIndex] =
                 [targetState |-> state, currentState |-> state,
                  actionTime |-> t, actionPending |-> FALSE]]), t)
       ELSE [D EXCEPT !.dotStates[dotIndex] =
                 [@ EXCEPT !.targetState = state,
                           !.actionTime = ULongAdd(t, ACTUATOR_SETTLE_TIME),
                           !.actionPending = TRUE]]

\* the condition under which the loop of processPendingActions commits dot i
due_strictlyLater(D, i, currentTime) ==
  D.dotStates[i].actionPending /\ ~ULongGE(D.dotStates[i].actionTime, currentTime)

due(D, i, currentTime) ==
  D.dotStates[i].actionPending /\ ULongGE(currentTime, D.dotStates[i].actionTime)

processPendingActions(D, t) ==
  LET currentTime == t
      updateNeeded == \E i \in 0..(TOTAL_DOTS - 1) : due(D, i, currentTime)
      committed == [D EXCEPT !.dotStates =
                      [i \in 0..(TOTAL_DOTS - 1) |->
                         IF due(D, i, currentTime)
                         THEN [D.dotStates[i] EXCEPT
                                 !.currentState = D.dotStates[i].targetState,
                                 !.actionPending = FALSE]
                         ELSE D.dotStates[i]]]
  IN IF updateNeeded
     THEN LET S == updateShiftRegisters(committed)
          IN IF S.displayEnabled THEN refresh(S, t) ELSE S
     ELSE committed

update(D, t) == processPendingActions(D, t)

\* ---- display controller -----------------------------------------------
enable(D, t) == refresh([D EXCEPT !.displayEnabled = TRUE], t)

disable(D) == [D EXCEPT !.displayEnabled = FALSE]

\* the second loop of clearDisplay, from dot i on; dotStates has the indices
\* 0 .. TOTAL_DOTS - 1, so the test is i < TOTAL_DOTS
RECURSIVE lowerAllFrom(_, _, _)
lowerAllFrom(D, i, t) ==
  IF i \notin DOMAIN D.dotStates THEN D
  ELSE lowerAllFrom(setDotState(D, i, FALSE, FALSE, t), i + 1, t)

clearDisplay(D, t) ==
  LET blank == [D EXCEPT !.cells =
                  [i \in 0..(NUM_BRAILLE_CELLS - 1) |->
                     [pattern |-> 0, currentState |-> 0, isActive |-> FALSE,
                      updateTime |-> t, needsUpdate |-> TRUE]]]
      cleared == clearShiftRegisters(lowerAllFrom(blank, 0, t))
  IN IF cleared.displayEnabled THEN refresh(cleared, t) ELSE cleared

begin(D, t) == clearDisplay(D, t)

\* the dot loop of setCellPattern, from dot on
RECURSIVE setCellDotsFrom(_, _, _, _, _)
setCellDotsFrom(D, cellIndex, pattern, dot, t) ==
  IF dot >= DOTS_PER_CELL THEN D
  ELSE LET absoluteDotIndex == (cellIndex * DOTS_PER_CELL + dot) % UINT8_MOD
           dotShouldBeUp == Bit(pattern, dot) # 0
       IN setCellDotsFrom(setDotState(D, absoluteDotIndex, dotShouldBeUp, FALSE, t),
                          cellIndex, pattern, dot + 1, t)

\* pattern & 0x3F
maskPattern_unmasked(pattern) == pattern

maskPattern(pattern) == pattern % 64

\* the pending actions are processed whether the display is enabled or not
setCellPattern_alwaysProcesses(D, cellIndex, pattern, t) ==
  IF ~isValidBrailleCell(cellIndex) THEN D
  ELSE LET stored == [D EXCEPT !.cells[cellIndex] =
                        [@ EXCEPT !.pattern = maskPattern(pattern),
                                  !.isActive = (pattern # 0),
                                  !.updateTime = t,
                                  !.needsUpdate = TRUE]]
           scheduled == setCellDotsFrom(stored, cellIndex, pattern, 0, t)
           tracked == [scheduled EXCEPT !.cells[cellIndex].currentState = pattern]
       IN processPendingActions(tracked, t)

setCellPattern(D, cellIndex, pattern, t) ==
  IF ~isValidBrailleCell(cellIndex) THEN D
  ELSE LET stored == [D EXCEPT !.cells[cellIndex] =
                        [@ EXCEPT !.pattern = maskPattern(pattern),
                                  !.isActive = (pattern # 0),
                                  !.updateTime = t,
                                  !.needsUpdate = TRUE]]
           scheduled == setCellDotsFrom(stored, cellIndex, pattern, 0, t)
           tracked == [scheduled EXCEPT !.cells[cellIndex].currentState = pattern]
       IN IF tracked.displayEnabled
          THEN processPendingActions(tracked, t)
          ELSE tracked

\* `if (cellIndex < NUM_BRAILLE_CELLS) setCellPattern(cellIndex++, pattern)` of
\* the loop of displayText.  L is the loop's state: the display D, cellIndex,
\* numberMode, and the list of the cells written so far (emitted), each with
\* the position in the text of the character it was written for and whether
\* it is that character's pattern ("char") or a prefix sign.
\* cellIndex++
nextCell_wrapped(cellIndex) == (cellIndex + 1) % NUM_BRAILLE_CELLS

nextCell(cellIndex) == (cellIndex + 1) % UINT8_MOD

emit(L, pattern, role, textIndex, t) ==
  IF L.cellIndex < NUM_BRAILLE_CELLS
  THEN [L EXCEPT !.D = setCellPattern(L.D, L.cellIndex, pattern, t),
                 !.cellIndex = nextCell(L.cellIndex),
                 !.emitted = Append(@, [cell |-> L.cellIndex, pattern |-> pattern,
                                        role |-> role, at |-> textIndex])]
  ELSE L

\* numberMode = false, the first statement of every branch but the digits'
leaveNumberMode_kept(L) == L

leaveNumberMode(L) == [L EXCEPT !.numberMode = FALSE]

\* the body of the while loop of displayText for the character text[textIndex]
displayTextStep(L, c, textIndex, t) ==
  IF IsDigit(c)
  THEN LET signed == IF ~L.numberMode
                     THEN IF L.cellIndex < NUM_BRAILLE_CELLS
                          THEN [emit(L, BRAILLE_NUMBER_SIGN, "number_sign", textIndex, t)
                                  EXCEPT !.numberMode = TRUE]
                          ELSE L
                     ELSE L
       IN emit(signed, BRAILLE_NUMBERS[c - 48 + 1], "char", textIndex, t)
  ELSE IF IsUpper(c)
  THEN emit(emit(leaveNumberMode(L),
                 BRAILLE_CAPITAL_SIGN, "capital_sign", textIndex, t),
            BRAILLE_ALPHABET[c - 65 + 1], "char", textIndex, t)
  ELSE IF IsLower(c)
  THEN emit(leaveNumberMode(L),
            BRAILLE_ALPHABET[c - 97 + 1], "char", textIndex, t)
  ELSE IF c = 32
  THEN emit(leaveNumberMode(L), BRAILLE_SPACE, "char", textIndex, t)
  ELSE emit(leaveNumberMode(L), charToBraille(c), "char", textIndex, t)

\* the while loop of displayText; textIndex counts from 1
RECURSIVE displayTextLoop(_, _, _, _)
displayTextLoop(L, text, textIndex, t) ==
  IF textIndex <= Len(text) /\ L.cellIndex < NUM_BRAILLE_CELLS
  THEN displayTextLoop(displayTextStep(L, text[textIndex], textIndex, t),
                       text, textIndex + 1, t)
  ELSE L

\* displayText of a non-null text; the result is the loop's final state
displayText(D, text, startCell, t) ==
  IF startCell >= NUM_BRAILLE_CELLS
  THEN [D |-> D, cellIndex |-> startCell, numberMode |-> FALSE, emitted |-> << >>]
  ELSE displayTextLoop([D |-> clearDisplay(D, t), cellIndex |-> startCell,
                        numberMode |-> FALSE, emitted |-> << >>], text, 1, t)

displayChar(D, c, cellIndex, t) ==
  IF ~isValidBrailleCell(cellIndex) THEN D
  ELSE setCellPattern(D, cellIndex, charToBraille(c), t)

displayMirroredPattern(D, cellIndex, pattern, t) ==
  setCellPattern(D, cellIndex, mirrorBraillePattern(pattern), t)

\* the mirroring loop of displayMirroredText
mirrorActiveCells(D, startCell) ==
  [D EXCEPT !.cells =
     [i \in 0..(NUM_BRAILLE_CELLS - 1) |->
        IF i >= startCell /\ D.cells[i].isActive
        THEN [D.cells[i] EXCEPT !.pattern = mirrorBraillePattern(D.cells[i].pattern)]
        ELSE D.cells[i]]]

\* as if each cell were set again, to its mirrored pattern
displayMirroredText_rescheduled(D, text, startCell, t) ==
  LET shown == displayText(D, text, startCell, t)
      RECURSIVE again(_, _)
      again(E, i) ==
        IF i >= NUM_BRAILLE_CELLS THEN E
        ELSE again(IF E.cells[i].isActive
                   THEN setCellPattern(E, i, mirrorBraillePattern(E.cells[i].pattern), t)
                   ELSE E, i + 1)
  IN [shown EXCEPT !.D = again(shown.D, startCell)]

displayMirroredText(D, text, startCell, t) ==
  LET shown == displayText(D, text, startCell, t)
      mirrored == updateShiftRegisters(mirrorActiveCells(shown.D, startCell))
  IN [shown EXCEPT !.D = IF mirrored.displayEnabled THEN refresh(mirrored, t)
                         ELSE mirrored]

raiseDot_dotUnchecked(D, cellIndex, dotIndex, t) ==
  IF cellIndex >= NUM_BRAILLE_CELLS THEN D
  ELSE setDotState(D, (cellIndex * DOTS_PER_CELL + dotIndex) % UINT8_MOD, TRUE, FALSE, t)

raiseDot(D, cellIndex, dotIndex, t) ==
  IF cellIndex >= NUM_BRAILLE_CELLS \/ dotIndex >= DOTS_PER_CELL THEN D
  ELSE setDotState(D, (cellIndex * DOTS_PER_CELL + dotIndex) % UINT8_MOD, TRUE, FALSE, t)

lowerDot(D, cellIndex, dotIndex, t) ==
  IF cellIndex >= NUM_BRAILLE_CELLS \/ dotIndex >= DOTS_PER_CELL THEN D
  ELSE setDotState(D, (cellIndex * DOTS_PER_CELL + dotIndex) % UINT8_MOD, FALSE, FALSE, t)

\* the request is made deferred
raiseDotImmediate_deferred(D, cellIndex, dotIndex, t) ==
  IF cellIndex >= NUM_BRAILLE_CELLS \/ dotIndex >= DOTS_PER_CELL THEN D
  ELSE setDotState(D, (cellIndex * DOTS_PER_CELL + dotIndex) % UINT8_MOD, TRUE, FALSE, t)

raiseDotImmediate(D, cellIndex, dotIndex, t) ==
  IF cellIndex >= NUM_BRAILLE_CELLS \/ dotIndex >= DOTS_PER_CELL THEN D
  ELSE setDotState(D, (cellIndex * DOTS_PER_CELL + dotIndex) % UINT8_MOD, TRUE, TRUE, t)

lowerDotImmediate(D, cellIndex, dotIndex, t) ==
  IF cellIndex >= NUM_BRAILLE_CELLS \/ dotIndex >= DOTS_PER_CELL THEN D
  ELSE setDotState(D, (cellIndex * DOTS_PER_CELL + dotIndex) % UINT8_MOD, FALSE, TRUE, t)

getCellPattern(D, cellIndex) ==
  IF ~isValidBrailleCell(cellIndex) THEN 0 ELSE D.cells[cellIndex].pattern

getCurrentCellState(D, cellIndex) ==
  IF ~isValidBrailleCell(cellIndex) THEN 0 ELSE D.cells[cellIndex].currentState

\* ---- the state machine ------------------------------------------------
\* The fields of the one BrailleDisplay object, the environment's clock, and
\* a record of the call made last:
\*   sink      the buffers the last call handed to shiftOut, in order
\*   now       the reading of millis()
\*   lastCall  the public member function called last, its arguments, the
\*             number of the step that made the call, and (was) the DotState
\*             the addressed dot had when a dot call with valid indices began
\*   emitted   the cells the last displayText / displayMirroredText wrote
\*   steps     number of steps taken (calls and clock advances)
\*   clearAge  milliseconds since clearDisplay() if only update() was called
\*             since, -1 otherwise
VARIABLES cells, dotStates, shiftRegisterData, displayEnabled, lastUpdateTime,
          sink, now, lastCall, emitted, steps, clearAge

vars == << cells, dotStates, shiftRegisterData, displayEnabled, lastUpdateTime,
           sink, now, lastCall, emitted, steps, clearAge >>

\* the fields of the object
object == << cells, dotStates, shiftRegisterData, displayEnabled, lastUpdateTime >>

\* the object as the record the operators work on, the sink empty at entry
Cur ==
  [ displayEnabled |-> displayEnabled, lastUpdateTime |-> lastUpdateTime,
    cells |-> cells, dotStates |-> dotStates,
    shiftRegisterData |-> shiftRegisterData, sink |-> << >> ]

Becomes(D) ==
  /\ displayEnabled' = D.displayEnabled
  /\ lastUpdateTime' = D.lastUpdateTime
  /\ cells' = D.cells
  /\ dotStates' = D.dotStates
  /\ shiftRegisterData' = D.shiftRegisterData
  /\ sink' = D.sink

NoText == << >>

\* the calls that address one dot: cellIndex is their first argument and
\* dotIndex (arg) their second
DotCalls == {"raiseDot", "lowerDot", "raiseDotImmediate", "lowerDotImmediate"}

\* a DotState as the constructor leaves it
NoDot == Constructed.dotStates[0]

\* the DotState of the dot that the call addresses, at entry
Addressed(op, cellIndex, arg) ==
  IF op \in DotCalls /\ cellIndex < NUM_BRAILLE_CELLS /\ arg < DOTS_PER_CELL
  THEN dotStates[cellIndex * DOTS_PER_CELL + arg]
  ELSE NoDot

\* the object as constructed, when the clock reads t
InitAt(t) ==
  /\ displayEnabled = Constructed.displayEnabled
  /\ lastUpdateTime = Constructed.lastUpdateTime
  /\ cells = Constructed.cells
  /\ dotStates = Constructed.dotStates
  /\ shiftRegisterData = Constructed.shiftRegisterData
  /\ sink = Constructed.sink
  /\ now = t
  /\ lastCall = [op |-> "constructor", cellIndex |-> 0, arg |-> 0, text |-> NoText,
                 no |-> 0, was |-> NoDot]
  /\ emitted = << >>
  /\ steps = 0
  /\ clearAge = -1

\* a public call that leaves the object as D
Call(limit, op, cellIndex, arg, text, D, written, age) ==
  /\ steps < limit
  /\ steps' = steps + 1
  /\ lastCall' = [op |-> op, cellIndex |-> cellIndex, arg |-> arg, text |-> text,
                  no |-> steps + 1, was |-> Addressed(op, cellIndex, arg)]
  /\ Becomes(D)
  /\ emitted' = written
  /\ clearAge' = age
  /\ UNCHANGED now

\* millis() moves on by dt between two calls
Elapse(limit, dt) ==
  /\ steps < limit
  /\ steps' = steps + 1
  /\ now' = ULongAdd(now, dt)
  /\ clearAge' = IF clearAge >= 0 THEN clearAge + dt ELSE clearAge
  /\ UNCHANGED << cells, dotStates, shiftRegisterData, displayEnabled,
                  lastUpdateTime, sink, lastCall, emitted >>

\* the step just taken was a call
Called == lastCall'.no # lastCall.no

\* ---- Spec: every public member function, few argument values -----------
\* (cellIndex, dotIndex) of the dot calls: a dot, a cell out of range, a dot
\* out of range
DotArgs == { <<0, 0>>, <<NUM_BRAILLE_CELLS, 0>>, <<0, DOTS_PER_CELL>> }
\* (cellIndex, pattern) of setCellPattern
PatternArgs == { <<0, 0>>, <<0, 64>>, <<0, 193>>, <<NUM_BRAILLE_CELLS, 193>> }
\* (text, startCell) of displayText: "5" and "Ab"
TextArgs == { << <<53>>, 0 >>, << <<65, 98>>, NUM_BRAILLE_CELLS - 1 >>,
              << <<65, 98>>, NUM_BRAILLE_CELLS >> }
\* (text, startCell) of displayMirroredText
MirroredTextArgs == { << <<65, 98>>, 0 >>, << <<65, 98>>, NUM_BRAILLE_CELLS >> }
CellArgs == {0, NUM_BRAILLE_CELLS}

Init == InitAt(ULong(0, 0))

AdvanceClock == Elapse(MaxCalls, ACTUATOR_SETTLE_TIME)

Begin == Call(MaxCalls, "begin", 0, 0, NoText, begin(Cur, now), << >>, -1)

Enable == Call(MaxCalls, "enable", 0, 0, NoText, enable(Cur, now), << >>, -1)

Disable == Call(MaxCalls, "disable", 0, 0, NoText, disable(Cur), << >>, -1)

ClearDisplay ==
  Call(MaxCalls, "clearDisplay", 0, 0, NoText, clearDisplay(Cur, now), << >>, 0)

Refresh == Call(MaxCalls, "refresh", 0, 0, NoText, refresh(Cur, now), << >>, -1)

Update == Call(MaxCalls, "update", 0, 0, NoText, update(Cur, now), << >>, clearAge)

SetCellPattern ==
  \E a \in PatternArgs :
    Call(MaxCalls, "setCellPattern", a[1], a[2], NoText,
         setCellPattern(Cur, a[1], a[2], now), << >>, -1)

DisplayChar ==
  \E i \in CellArgs :
    Call(MaxCalls, "displayChar", i, 98, NoText,
         displayChar(Cur, 98, i, now), << >>, -1)

DisplayMirroredPattern ==
  \E i \in CellArgs :
    Call(MaxCalls, "displayMirroredPattern", i, 1, NoText,
         displayMirroredPattern(Cur, i, 1, now), << >>, -1)

DisplayText ==
  \E a \in TextArgs :
    LET R == displayText(Cur, a[1], a[2], now)
    IN Call(MaxCalls, "displayText", a[2], 0, a[1], R.D, R.emitted, -1)

DisplayMirroredText ==
  \E a \in MirroredTextArgs :
    LET R == displayMirroredText(Cur, a[1], a[2], now)
    IN Call(MaxCalls, "displayMirroredText", a[2], 0, a[1], R.D, R.emitted, -1)

RaiseDot ==
  \E a \in DotArgs :
    Call(MaxCalls, "raiseDot", a[1], a[2], NoText,
         raiseDot(Cur, a[1], a[2], now), << >>, -1)

LowerDot ==
  \E a \in DotArgs :
    Call(MaxCalls, "lowerDot", a[1], a[2], NoText,
         lowerDot(Cur, a[1], a[2], now), << >>, -1)

RaiseDotImmediate ==
  \E a \in DotArgs :
    Call(MaxCalls, "raiseDotImmediate", a[1], a[2], NoText,
         raiseDotImmediate(Cur, a[1], a[2], now), << >>, -1)

LowerDotImmediate ==
  \E a \in DotArgs :
    Call(MaxCalls, "lowerDotImmediate", a[1], a[2], NoText,
         lowerDotImmediate(Cur, a[1], a[2], now), << >>, -1)

Next ==
  \/ AdvanceClock
  \/ Begin
  \/ Enable
  \/ Disable
  \/ ClearDisplay
  \/ Refresh
  \/ Update
  \/ SetCellPattern
  \/ DisplayChar
  \/ DisplayMirroredPattern
  \/ DisplayText
  \/ DisplayMirroredText
  \/ RaiseDot
  \/ LowerDot
  \/ RaiseDotImmediate
  \/ LowerDotImmediate

Spec == Init /\ [][Next]_vars

\* ---- TimingSpec: the scheduler, on dot 0 and the last dot ---------------
\* The clock starts at 0 or WrapMargin milliseconds before it wraps, and
\* moves in steps of ShortStep and of ACTUATOR_SETTLE_TIME.
StartTimes == { ULong(0, 0), ULongBeforeWrap(WrapMargin) }
TimingDots == { <<0, 0>>, <<NUM_BRAILLE_CELLS - 1, DOTS_PER_CELL - 1>> }

TimingInit == \E t \in StartTimes : InitAt(t)

TickShort == Elapse(MaxTimingSteps, ShortStep)

TickSettle == Elapse(MaxTimingSteps, ACTUATOR_SETTLE_TIME)

TimingRaiseDot ==
  \E a \in TimingDots :
    Call(MaxTimingSteps, "raiseDot", a[1], a[2], NoText,
         raiseDot(Cur, a[1], a[2], now), << >>, -1)

TimingLowerDot ==
  Call(MaxTimingSteps, "lowerDot", 0, 0, NoText, lowerDot(Cur, 0, 0, now), << >>, -1)

TimingLowerDotImmediate ==
  Call(MaxTimingSteps, "lowerDotImmediate", 0, 0, NoText,
       lowerDotImmediate(Cur, 0, 0, now), << >>, -1)

TimingSetCellPattern ==
  Call(MaxTimingSteps, "setCellPattern", 0, 2, NoText,
       setCellPattern(Cur, 0, 2, now), << >>, -1)

TimingClearDisplay ==
  Call(MaxTimingSteps, "clearDisplay", 0, 0, NoText, clearDisplay(Cur, now), << >>, 0)

TimingEnable ==
  Call(MaxTimingSteps, "enable", 0, 0, NoText, enable(Cur, now), << >>, -1)

TimingUpdate ==
  Call(MaxTimingSteps, "update", 0, 0, NoText, update(Cur, now), << >>, clearAge)

TimingNext ==
  \/ TickShort
  \/ TickSettle
  \/ TimingRaiseDot
  \/ TimingLowerDot
  \/ TimingLowerDotImmediate
  \/ TimingSetCellPattern
  \/ TimingClearDisplay
  \/ TimingEnable
  \/ TimingUpdate

TimingSpec == TimingInit /\ [][TimingNext]_vars

\* the same calls with the clock started at 0: it never comes near the wrap
PlainTimingSpec == Init /\ [][TimingNext]_vars

\* ---- InputSpec: one call with every argument value ----------------------
\* The call is made on the display as constructed, enabled or not.
\* '5', 'A', 'b', ' ', '.'
TextChars == {53, 65, 98, 32, 46}
Texts == UNION { [1..k -> TextChars] : k \in 0..MaxTextLen }
InputCells == {0, NUM_BRAILLE_CELLS - 1, NUM_BRAILLE_CELLS, UINT8_MOD - 1}
InputStartCells ==
  {0, NUM_BRAILLE_CELLS - 2, NUM_BRAILLE_CELLS - 1, NUM_BRAILLE_CELLS}
Patterns == 0..(UINT8_MOD - 1)

Fresh == lastCall.op \in {"constructor", "enable"}

InputInit == \E t \in StartTimes : InitAt(t)

InputEnable ==
  /\ lastCall.op = "constructor"
  /\ Call(steps + 1, "enable", 0, 0, NoText, enable(Cur, now), << >>, -1)

InputSetCellPattern ==
  \E i \in InputCells, p \in Patterns :
    /\ Fresh
    /\ Call(steps + 1, "setCellPattern", i, p, NoText,
            setCellPattern(Cur, i, p, now), << >>, -1)

InputDisplayMirroredPattern ==
  \E i \in CellArgs, p \in Patterns :
    /\ Fresh
    /\ Call(steps + 1, "displayMirroredPattern", i, p, NoText,
            displayMirroredPattern(Cur, i, p, now), << >>, -1)

InputDisplayChar ==
  \E i \in CellArgs, c \in 1..127 :
    /\ Fresh
    /\ Call(steps + 1, "displayChar", i, c, NoText,
            displayChar(Cur, c, i, now), << >>, -1)

InputDisplayText ==
  \E text \in Texts, startCell \in InputStartCells :
    /\ Fresh
    /\ LET R == displayText(Cur, text, startCell, now)
       IN Call(steps + 1, "displayText", startCell, 0, text, R.D, R.emitted, -1)

InputDisplayMirroredText ==
  \E text \in Texts, startCell \in InputStartCells :
    /\ Fresh
    /\ LET R == displayMirroredText(Cur, text, startCell, now)
       IN Call(steps + 1, "displayMirroredText", startCell, 0, text,
               R.D, R.emitted, -1)

InputNext ==
  \/ InputEnable
  \/ InputSetCellPattern
  \/ InputDisplayMirroredPattern
  \/ InputDisplayChar
  \/ InputDisplayText
  \/ InputDisplayMirroredText

InputSpec == InputInit /\ [][InputNext]_vars

\* ---- what the claims speak of -------------------------------------------
Dots == 0..(TOTAL_DOTS - 1)
Cells == 0..(NUM_BRAILLE_CELLS - 1)

\* bit outputIndex of the output buffer
OutputBit(outputIndex) == Bit(shiftRegisterData[outputIndex \div 8], outputIndex % 8)
RaiseBit(d) == OutputBit(d * 2)
RetractBit(d) == OutputBit(d * 2 + 1)

\* the last step was a call of op
JustCalled(op) == lastCall.op = op /\ lastCall.no = steps

DigitChars == 48..57
UpperChars == 65..90

\* C1: in every reachable state every dot has exactly one of its two output
\* bits set.  It fails in the state the constructor leaves (and after
\* clearDisplay), where clearShiftRegisters has zeroed the buffer.
C1_ExactlyOneBitPerDot ==
  \A d \in Dots : RaiseBit(d) + RetractBit(d) = 1

\* C2: an update() leaves a pending dot alone (state and pending flag) while
\* the clock reads less than its actionTime, and commits it (currentState
\* becomes targetState, pending cleared) when the clock reads actionTime or more.
C2_TickCommitsWhenDue ==
  [][ (Called /\ lastCall'.op = "update") =>
        \A d \in Dots :
          dotStates[d].actionPending =>
            IF ULongGE(now, dotStates[d].actionTime)
            THEN /\ dotStates'[d].currentState = dotStates[d].targetState
                 /\ ~dotStates'[d].actionPending
            ELSE /\ dotStates'[d].currentState = dotStates[d].currentState
                 /\ dotStates'[d].actionPending ]_vars

\* an update() has run with the clock at the actionTime of dot 0, which is
\* now raised, while the last dot is still pending, its time not yet come
C2_Witness ==
  /\ JustCalled("update")
  /\ dotStates[0].currentState /\ ~dotStates[0].actionPending
  /\ dotStates[0].actionTime = now
  /\ dotStates[TOTAL_DOTS - 1].actionPending
  /\ ~dotStates[TOTAL_DOTS - 1].currentState
  /\ ~ULongGE(now, dotStates[TOTAL_DOTS - 1].actionTime)

\* C3: with the display enabled, setCellPattern(i, p) with a valid i returns
\* with the six dots of cell i committed to the bits of p, none pending.
C3_SetCellPatternCommits ==
  (JustCalled("setCellPattern") /\ displayEnabled
     /\ lastCall.cellIndex < NUM_BRAILLE_CELLS) =>
    \A dot \in 0..(DOTS_PER_CELL - 1) :
      LET d == lastCall.cellIndex * DOTS_PER_CELL + dot
      IN /\ ~dotStates[d].actionPending
         /\ dotStates[d].currentState = (Bit(lastCall.arg, dot) = 1)

\* every dot retracted and idle, every cell's current state 0, every output
\* pair reading retracted
AllRetracted ==
  /\ \A d \in Dots : ~dotStates[d].currentState /\ ~dotStates[d].actionPending
  /\ \A i \in Cells : cells[i].currentState = 0
  /\ \A d \in Dots : RaiseBit(d) = 0 /\ RetractBit(d) = 1

\* C4: after clearDisplay(), an update() made ACTUATOR_SETTLE_TIME or more
\* later, with nothing but update() called in between, leaves every dot
\* retracted and idle, every cell's current state 0 and every output pair
\* reading retracted.
C4_ClearThenUpdateRetractsAll ==
  [][ (Called /\ lastCall'.op = "update" /\ clearAge >= ACTUATOR_SETTLE_TIME)
        => AllRetracted' ]_vars

\* C5: getCellPattern(i) right after setCellPattern(i, p) with a valid i
\* returns the low six bits of p, and every stored pattern is below 64.
C5_StoredPatternMasked ==
  /\ \A i \in Cells : cells[i].pattern < 64
  /\ (JustCalled("setCellPattern") /\ lastCall.cellIndex < NUM_BRAILLE_CELLS) =>
       getCellPattern(Cur, lastCall.cellIndex) = lastCall.arg % 64

\* setCellPattern has stored a pattern that had bits above the sixth and
\* below it
C5_Witness ==
  /\ JustCalled("setCellPattern")
  /\ lastCall.cellIndex = NUM_BRAILLE_CELLS - 1
  /\ lastCall.arg = 193
  /\ getCellPattern(Cur, lastCall.cellIndex) = 1

\* C6: displayText never ends on a prefix sign whose character was dropped:
\* every NUMBER_SIGN or CAPITAL_SIGN cell it writes is followed by the cell
\* of the character it introduces.
C6_NoPartialUnit ==
  lastCall.op = "displayText" =>
    \A j \in 1..Len(emitted) :
      emitted[j].role # "char" =>
        /\ j < Len(emitted)
        /\ emitted[j + 1].role = "char"
        /\ emitted[j + 1].at = emitted[j].at

\* C7: displayText writes cells startCell, startCell + 1, ... in this order,
\* each once and none beyond NUM_BRAILLE_CELLS - 1; a text longer than the
\* cells left fills them up to the last; and all the other cells hold
\* pattern 0 when it returns.
C7_NoWraparound ==
  (lastCall.op = "displayText" /\ lastCall.cellIndex < NUM_BRAILLE_CELLS) =>
    LET startCell == lastCall.cellIndex
        n == Len(emitted)
    IN /\ \A j \in 1..n : emitted[j].cell = startCell + j - 1
       /\ startCell + n <= NUM_BRAILLE_CELLS
       /\ Len(lastCall.text) > NUM_BRAILLE_CELLS - startCell
            => startCell + n = NUM_BRAILLE_CELLS
       /\ \A j \in 1..n : cells[emitted[j].cell].pattern = emitted[j].pattern % 64
       /\ \A i \in Cells : (i < startCell \/ i >= startCell + n) => cells[i].pattern = 0

\* a text of three characters was cut after the two cells that were left
C7_Witness ==
  /\ lastCall.op = "displayText"
  /\ lastCall.cellIndex = NUM_BRAILLE_CELLS - 2
  /\ lastCall.text = <<98, 98, 98>>
  /\ Len(emitted) = 2
  /\ cells[NUM_BRAILLE_CELLS - 1].pattern = 3
  /\ cells[0].pattern = 0

\* the character of the text that the cell emitted[j] was written for
CharOf(j) == lastCall.text[emitted[j].at]

\* the cell emitted[j] is the pattern of a character and the cell before it
\* is the sign, written for the same character
SignedBy(j, sign) ==
  /\ j > 1
  /\ emitted[j - 1].pattern = sign
  /\ emitted[j - 1].role # "char"
  /\ emitted[j - 1].at = emitted[j].at

\* C8: displayText writes a NUMBER_SIGN cell right before the first digit of
\* every run of digits and before no other character; "5" gives two cells,
\* NUMBER_SIGN and the pattern of 5.
C8_NumberSignPerRun ==
  lastCall.op = "displayText" =>
    /\ \A j \in 1..Len(emitted) :
         emitted[j].role = "char" =>
           ( SignedBy(j, BRAILLE_NUMBER_SIGN) <=>
               /\ CharOf(j) \in DigitChars
               /\ (emitted[j].at = 1
                     \/ lastCall.text[emitted[j].at - 1] \notin DigitChars) )
    /\ (lastCall.text = <<53>> /\ lastCall.cellIndex <= NUM_BRAILLE_CELLS - 2) =>
         /\ Len(emitted) = 2
         /\ emitted[1].pattern = 60 /\ emitted[2].pattern = 17
         /\ cells[lastCall.cellIndex].pattern = 60
         /\ cells[lastCall.cellIndex + 1].pattern = 17

\* "5b5" was written as five cells: the second 5 has its own number sign
C8_Witness ==
  /\ lastCall.op = "displayText"
  /\ lastCall.text = <<53, 98, 53>>
  /\ Len(emitted) = 5
  /\ emitted[4].pattern = BRAILLE_NUMBER_SIGN
  /\ cells[lastCall.cellIndex + 3].pattern = BRAILLE_NUMBER_SIGN

\* C9: displayText writes a CAPITAL_SIGN cell right before every uppercase
\* letter and before no other character; "Ab" gives three cells,
\* CAPITAL_SIGN, the pattern of A, the pattern of b.
C9_CapitalSignPerLetter ==
  lastCall.op = "displayText" =>
    /\ \A j \in 1..Len(emitted) :
         emitted[j].role = "char" =>
           ( SignedBy(j, BRAILLE_CAPITAL_SIGN) <=> CharOf(j) \in UpperChars )
    /\ (lastCall.text = <<65, 98>> /\ lastCall.cellIndex <= NUM_BRAILLE_CELLS - 3) =>
         /\ Len(emitted) = 3
         /\ emitted[1].pattern = 32 /\ emitted[2].pattern = 1 /\ emitted[3].pattern = 3
         /\ \A j \in 1..3 : cells[lastCall.cellIndex + j - 1].pattern = emitted[j].pattern

\* "AA" was written as four cells, a capital sign before either letter
C9_Witness ==
  /\ lastCall.op = "displayText"
  /\ lastCall.text = <<65, 65>>
  /\ Len(emitted) = 4
  /\ emitted[3].pattern = BRAILLE_CAPITAL_SIGN
  /\ cells[lastCall.cellIndex + 2].pattern = BRAILLE_CAPITAL_SIGN

\* the call c has an index out of range, as C10 lists them
OutOfRange(c) ==
  \/ /\ c.op \in {"setCellPattern", "displayChar", "displayMirroredPattern"}
     /\ c.cellIndex >= NUM_BRAILLE_CELLS
  \/ /\ c.op \in {"raiseDot", "lowerDot", "raiseDotImmediate", "lowerDotImmediate"}
     /\ (c.cellIndex >= NUM_BRAILLE_CELLS \/ c.arg >= DOTS_PER_CELL)
  \/ /\ c.op = "displayText"
     /\ c.cellIndex >= NUM_BRAILLE_CELLS

\* C10: a call with a cell or dot index out of range changes no cell, no dot
\* state, not the output buffer and not the enabled flag.
C10_OutOfRangeIsNoOp ==
  [][ (Called /\ OutOfRange(lastCall')) =>
        UNCHANGED << cells, dotStates, shiftRegisterData, displayEnabled >> ]_vars

\* a call with the dot index out of range was made on an enabled display
\* with a dot pending
C10_Witness ==
  /\ JustCalled("raiseDot")
  /\ lastCall.arg >= DOTS_PER_CELL
  /\ displayEnabled
  /\ \E d \in Dots : dotStates[d].actionPending

\* C11: a call made while the display is disabled, other than enable(), hands
\* nothing to shiftOut, and neither does disable(); and disable() changes no
\* dot state, no cell and no byte of the output buffer.
C11_SinkOnlyWhileEnabled ==
  [][ Called =>
        /\ ((~displayEnabled \/ lastCall'.op = "disable") /\ lastCall'.op # "enable")
             => sink' = << >>
        /\ lastCall'.op = "disable"
             => UNCHANGED << cells, dotStates, shiftRegisterData >> ]_vars

\* raiseDotImmediate on a disabled display has raised dot 0 and serialized
\* it, and shifted nothing out
C11_Witness ==
  /\ JustCalled("raiseDotImmediate")
  /\ ~displayEnabled
  /\ dotStates[0].currentState /\ ~dotStates[0].actionPending
  /\ RaiseBit(0) = 1
  /\ sink = << >>

\* C12: when displayMirroredText(text, startCell) returns, every cell it
\* wrote holds the mirror (bits 0..2 exchanged with bits 3..5) of the pattern
\* displayText wrote there, and every dot has the targetState, pending flag
\* and actionTime that displayText alone leaves: the targets of a written
\* cell are the bits of the unmirrored pattern.
C12_MirrorsStoredPatternsOnly ==
  [][ (Called /\ lastCall'.op = "displayMirroredText") =>
        \E T \in { displayText(Cur, lastCall'.text, lastCall'.cellIndex, now).D } :
           /\ \A d \in Dots :
                /\ dotStates'[d].targetState = T.dotStates[d].targetState
                /\ dotStates'[d].actionPending = T.dotStates[d].actionPending
                /\ dotStates'[d].actionTime = T.dotStates[d].actionTime
           /\ \A i \in Cells :
                (i >= lastCall'.cellIndex /\ cells'[i].isActive) =>
                  /\ cells'[i].pattern < 64
                  /\ \A k \in 0..(DOTS_PER_CELL - 1) :
                       Bit(cells'[i].pattern, k) = Bit(T.cells[i].pattern, (k + 3) % 6)
           /\ \A j \in 1..Len(emitted') :
                \A k \in 0..(DOTS_PER_CELL - 1) :
                  /\ dotStates'[emitted'[j].cell * DOTS_PER_CELL + k].targetState
                       = (Bit(emitted'[j].pattern, k) = 1)
                  /\ Bit(cells'[emitted'[j].cell].pattern, (k + 3) % 6)
                       = Bit(emitted'[j].pattern, k) ]_vars

\* displayMirroredText("Ab", 0) has returned: the cells hold the mirrors of
\* CAPITAL_SIGN, 'a' and 'b', and the dots of cell 1 are aimed at 'a' unmirrored
C12_Witness ==
  /\ JustCalled("displayMirroredText")
  /\ lastCall.text = <<65, 98>> /\ lastCall.cellIndex = 0
  /\ cells[0].pattern = 4 /\ cells[1].pattern = 8 /\ cells[2].pattern = 24
  /\ dotStates[DOTS_PER_CELL].targetState /\ dotStates[DOTS_PER_CELL].actionPending
  /\ ~dotStates[DOTS_PER_CELL + 3].targetState

\* C13: for every p in 0..255 the value m that displayMirroredPattern(i, p)
\* got from mirrorBraillePattern(p) is below 64 and has bit k equal to bit
\* k + 3 of p and bit k + 3 equal to bit k of p (k = 0, 1, 2); and for p below
\* 64 mirroring m gives p back.
C13_MirrorIsInvolution ==
  (JustCalled("displayMirroredPattern") /\ lastCall.cellIndex < NUM_BRAILLE_CELLS) =>
    LET p == lastCall.arg
        m == getCurrentCellState(Cur, lastCall.cellIndex)
    IN /\ m < 64
       /\ \A k \in 0..2 : /\ Bit(m, k) = Bit(p, k + 3)
                          /\ Bit(m, k + 3) = Bit(p, k)
       /\ p < 64 => mirrorBraillePattern(m) = p

\* dots 1, 2 and 6 were mirrored to dots 4, 5 and 3
C13_Witness ==
  /\ JustCalled("displayMirroredPattern")
  /\ lastCall.cellIndex = 0
  /\ lastCall.arg = 35
  /\ getCurrentCellState(Cur, 0) = 28
  /\ getCellPattern(Cur, 0) = 28

\* the dot a dot call addresses, and the state the call asks for
DotOf(c) == c.cellIndex * DOTS_PER_CELL + c.arg
Asked(c) == c.op \in {"raiseDot", "raiseDotImmediate"}

\* the step is a raiseDot or lowerDot, with valid indices, of a dot that has
\* a deferred action pending
OverwritesPending ==
  /\ Called
  /\ lastCall'.op \in {"raiseDot", "lowerDot"}
  /\ ~OutOfRange(lastCall')
  /\ dotStates[DotOf(lastCall')].actionPending

\* C14 as stated: a deferred request on a dot that is pending replaces its
\* targetState and leaves its actionTime as the first request scheduled it.
C14_OverwriteKeepsActionTime ==
  [][ OverwritesPending =>
        /\ dotStates'[DotOf(lastCall')].targetState = Asked(lastCall')
        /\ dotStates'[DotOf(lastCall')].actionTime
             = dotStates[DotOf(lastCall')].actionTime ]_vars

\* C14 as amended: a deferred request on a dot that is pending replaces its
\* targetState, leaves it pending and its currentState as it was, and sets
\* its actionTime anew, to the clock reading of this request plus
\* ACTUATOR_SETTLE_TIME (modulo 2^32).
C14_OverwriteReschedules ==
  [][ OverwritesPending =>
        /\ dotStates'[DotOf(lastCall')].targetState = Asked(lastCall')
        /\ dotStates'[DotOf(lastCall')].actionPending
        /\ dotStates'[DotOf(lastCall')].currentState
             = dotStates[DotOf(lastCall')].currentState
        /\ dotStates'[DotOf(lastCall')].actionTime
             = ULongAdd(now, ACTUATOR_SETTLE_TIME) ]_vars

\* lowerDot has replaced a pending raise of dot 0 that was scheduled at an
\* earlier clock reading
C14_Witness ==
  /\ JustCalled("lowerDot")
  /\ lastCall.was.actionPending /\ lastCall.was.targetState
  /\ lastCall.was.actionTime # dotStates[0].actionTime
  /\ dotStates[0].actionPending /\ ~dotStates[0].targetState
  /\ dotStates[0].actionTime = ULongAdd(now, ACTUATOR_SETTLE_TIME)

\* C15: an update() never commits a dot fewer than ACTUATOR_SETTLE_TIME
\* milliseconds after the deferred request it is pending on.  The request
\* made when the clock read t0 set actionTime to t0 + ACTUATOR_SETTLE_TIME
\* modulo 2^32, so the clock reads t0 + e, e milliseconds after the request,
\* exactly when actionTime is the clock reading plus ACTUATOR_SETTLE_TIME - e.
C15_LatencyAtLeastSettleTime ==
  [][ (Called /\ lastCall'.op = "update") =>
        \A d \in Dots :
          (dotStates[d].actionPending /\ ~dotStates'[d].actionPending) =>
            \A e \in 0..(ACTUATOR_SETTLE_TIME - 1) :
              dotStates[d].actionTime # ULongAdd(now, ACTUATOR_SETTLE_TIME - e) ]_vars

\* C16: raiseDotImmediate / lowerDotImmediate with valid indices returns with
\* the dot's currentState and targetState at the state asked for and its
\* pending flag clear, whatever was pending on it, and with the targetState,
\* currentState and pending flag of every other dot as they were.
C16_ImmediateSetsOneDot ==
  [][ (Called /\ lastCall'.op \in {"raiseDotImmediate", "lowerDotImmediate"}
         /\ ~OutOfRange(lastCall')) =>
        /\ dotStates'[DotOf(lastCall')].currentState = Asked(lastCall')
        /\ dotStates'[DotOf(lastCall')].targetState = Asked(lastCall')
        /\ ~dotStates'[DotOf(lastCall')].actionPending
        /\ \A d \in Dots \ {DotOf(lastCall')} :
             /\ dotStates'[d].targetState = dotStates[d].targetState
             /\ dotStates'[d].currentState = dotStates[d].currentState
             /\ dotStates'[d].actionPending = dotStates[d].actionPending ]_vars

\* raiseDotImmediate has raised dot 0, discarding the deferred retraction it
\* was pending on, while the other dots went on pending
C16_Witness ==
  /\ JustCalled("raiseDotImmediate")
  /\ lastCall.was.actionPending /\ ~lastCall.was.targetState
  /\ dotStates[0].currentState /\ dotStates[0].targetState
  /\ ~dotStates[0].actionPending
  /\ \A d \in Dots \ {0} : dotStates[d].actionPending

\* the output buffer is the serialization of the current dot states
Serialized ==
  \A d \in Dots :
    /\ RaiseBit(d) = 1 <=> dotStates[d].currentState
    /\ RetractBit(d) = 1 <=> ~dotStates[d].currentState

\* the step is a call in which a pending dot is committed, or an immediate
\* raise or lower with valid indices
CommitsADot ==
  /\ Called
  /\ \/ \E d \in Dots : dotStates[d].actionPending /\ ~dotStates'[d].actionPending
     \/ /\ lastCall'.op \in {"raiseDotImmediate", "lowerDotImmediate"}
        /\ ~OutOfRange(lastCall')

\* C17: a call that commits a dot (update() with a due action, an immediate
\* raise or lower) returns with the output buffer serializing all the dots:
\* for every dot, pending or not, the raise bit is set iff its currentState is
\* raised and the retract bit iff it is retracted.
C17_BufferSerializedAfterCommit ==
  [][ CommitsADot => Serialized' ]_vars

\* update() has committed the raise of dot 0 while the last dot is still
\* pending: the buffer has dot 0 raised and the last dot retracted
C17_Witness ==
  /\ JustCalled("update")
  /\ dotStates[0].currentState /\ ~dotStates[0].actionPending
  /\ dotStates[TOTAL_DOTS - 1].actionPending
  /\ ~dotStates[TOTAL_DOTS - 1].currentState
  /\ RaiseBit(0) = 1 /\ RetractBit(0) = 0
  /\ RaiseBit(TOTAL_DOTS - 1) = 0 /\ RetractBit(TOTAL_DOTS - 1) = 1

\* the calls that set cell patterns: setCellPattern and the calls made
\* through it
PatternCalls == {"setCellPattern", "displayChar", "displayMirroredPattern",
                 "displayText", "displayMirroredText"}

\* every dot that has an action pending, other than the dot an immediate
\* raise or lower addresses, is left pending and its currentState as it was
PendingDotsKept ==
  \A d \in Dots :
    ( /\ dotStates[d].actionPending
      /\ ~ ( /\ lastCall'.op \in {"raiseDotImmediate", "lowerDotImmediate"}
             /\ ~OutOfRange(lastCall')
             /\ d = DotOf(lastCall') ) ) =>
      /\ dotStates'[d].actionPending
      /\ dotStates'[d].currentState = dotStates[d].currentState

\* C18 as stated: no call but update() commits a pending deferred action,
\* whether the display is enabled or not.
C18_OnlyUpdateCommits ==
  [][ (Called /\ lastCall'.op # "update") => PendingDotsKept ]_vars

\* C18 as amended: a pending deferred action is committed only by update()
\* or, while the display is enabled, by setCellPattern or a call made through
\* it (displayChar, displayMirroredPattern, displayText, displayMirroredText);
\* no other call, and with the display disabled no call but update(), commits it.
C18_OnlyTickCommits ==
  [][ ( /\ Called
        /\ lastCall'.op # "update"
        /\ ~(displayEnabled /\ lastCall'.op \in PatternCalls) ) =>
        PendingDotsKept ]_vars

\* setCellPattern(0, .) on a disabled display has left the raise of the last
\* dot pending although its actionTime has come
C18_Witness ==
  /\ JustCalled("setCellPattern")
  /\ ~displayEnabled
  /\ dotStates[TOTAL_DOTS - 1].actionPending
  /\ dotStates[TOTAL_DOTS - 1].targetState
  /\ ~dotStates[TOTAL_DOTS - 1].currentState
  /\ ULongGE(now, dotStates[TOTAL_DOTS - 1].actionTime)

\* C19: in every reachable state getCurrentCellState(i) has no bit above bit
\* 5 and its bit d is set iff dot i * 6 + d is committed raised.  It fails
\* once setCellPattern has written its argument there, the dots of the cell
\* still pending, or a dot call has moved a dot.
C19_CellStateIsPhysical ==
  \A i \in Cells :
    /\ getCurrentCellState(Cur, i) < 64
    /\ \A d \in 0..(DOTS_PER_CELL - 1) :
         Bit(getCurrentCellState(Cur, i), d) = 1
           <=> dotStates[i * DOTS_PER_CELL + d].currentState

\* C20: in every reachable state a cell is active exactly when its stored
\* pattern is not 0.  It fails for setCellPattern(i, p) with p = 64, 128 or
\* 192, which stores p & 0x3F = 0 and sets isActive from p itself.
C20_ActiveIffPatternNonZero ==
  \A i \in Cells : cells[i].isActive <=> getCellPattern(Cur, i) # 0

\* C21: in every reachable state a dot with no action pending has its
\* currentState equal to its targetState.
C21_IdleDotAtTarget ==
  \A d \in Dots :
    ~dotStates[d].actionPending =>
      dotStates[d].currentState = dotStates[d].targetState

\* dot 0 has been committed and is idle, raised as its target asks, while
\* the last dot, pending, has a target that its currentState has not reached
C21_Witness ==
  /\ ~dotStates[0].actionPending
  /\ dotStates[0].targetState /\ dotStates[0].currentState
  /\ dotStates[0].actionTime # Constructed.dotStates[0].actionTime
  /\ dotStates[TOTAL_DOTS - 1].actionPending
  /\ dotStates[TOTAL_DOTS - 1].targetState # dotStates[TOTAL_DOTS - 1].currentState

\* bit outputIndex of a buffer as refresh() handed it to shiftOut, the byte
\* of the last register first
DeliveredBit(buffer, outputIndex) ==
  Bit(buffer[NUM_SHIFT_REGISTERS - (outputIndex \div 8)], outputIndex % 8)

\* C22: in every reachable state no dot has both its raise bit and its
\* retract bit set in the output buffer, nor in any buffer that the last
\* call shifted out.
C22_NeverBothBits ==
  /\ \A d \in Dots : ~(RaiseBit(d) = 1 /\ RetractBit(d) = 1)
  /\ \A k \in 1..Len(sink) :
       \A d \in Dots :
         ~(DeliveredBit(sink[k], d * 2) = 1 /\ DeliveredBit(sink[k], d * 2 + 1) = 1)

\* raiseDotImmediate on an enabled display has shifted out one buffer, with
\* the raise bit of dot 0 set and its retract bit clear, and the retract bit
\* of dot 1 set
C22_Witness ==
  /\ JustCalled("raiseDotImmediate")
  /\ displayEnabled
  /\ Len(sink) = 1
  /\ DeliveredBit(sink[1], 0) = 1 /\ DeliveredBit(sink[1], 1) = 0
  /\ DeliveredBit(sink[1], 2) = 0 /\ DeliveredBit(sink[1], 3) = 1
  /\ RaiseBit(0) = 1 /\ RetractBit(0) = 0
====
